---- MODULE Spec2Model ----
(***************************************************************************)
(* Rin: the AI invocation layer (server/src/utils/ai.ts) and the config    *)
(* HTTP surface (server/src/services/config.ts).                           *)
(*                                                                         *)
(* JavaScript values are records [t |-> type tag, v |-> text], so that     *)
(* `undefined`, `null`, '' and the other falsy values stay distinct and    *)
(* `||` / `!== undefined` / `=== ''` can be told apart.  Strings are TLA+  *)
(* strings; substring tests are computed character by character.          *)
(***************************************************************************)
EXTENDS Integers, Sequences, FiniteSets, TLC

VARIABLES
    serverConfig,   \* persisted generic store of the `server` namespace (key -> value)
    clientConfig,   \* persisted generic store of the `client` namespace (key -> value)
    aiConfig,       \* the stored AI sub-config {enabled, provider, model, api_key, api_url}
    cache,          \* TRUE while the external cache holds entries
    env,            \* environment bindings NAME, DESCRIPTION, AVATAR, PAGE_SIZE
    req,            \* the last request handled
    status,         \* set.status of the last request (0: nothing handled yet)
    resp,           \* what the last handler returned
    calls           \* collaborator calls the last handler made, in order

vars == <<serverConfig, clientConfig, aiConfig, cache, env, req, status, resp, calls>>

-----------------------------------------------------------------------------
(* JavaScript values *)

Undef == [t |-> "undefined", v |-> ""]
Null == [t |-> "null", v |-> ""]
Str(s) == [t |-> "string", v |-> s]
Num(s) == [t |-> "number", v |-> s]
Bool(b) == [t |-> "boolean", v |-> IF b THEN "true" ELSE "false"]

\* ToBoolean: undefined, null, '', 0, NaN and false are falsy
Truthy(x) ==
    CASE x.t = "undefined" -> FALSE
      [] x.t = "null" -> FALSE
      [] x.t = "string" -> x.v # ""
      [] x.t = "number" -> x.v \notin {"0", "NaN"}
      [] x.t = "boolean" -> x.v = "true"
      [] OTHER -> TRUE

\* a || b
Or(a, b) == IF Truthy(a) THEN a ELSE b

\* String(x)
ToStr(x) == IF x.t \in {"undefined", "null"} THEN x.t ELSE x.v

\* obj[key] of a JS object modelled as a function: undefined when the key is absent
Get(obj, key) == IF key \in DOMAIN obj THEN obj[key] ELSE Undef

EmptyObj == [k \in {} |-> Undef]

\* obj with obj[key] = value
Put(obj, key, value) ==
    [k \in (DOMAIN obj) \cup {key} |-> IF k = key THEN value ELSE obj[k]]

\* {...a, ...b}
Merge(a, b) ==
    [k \in (DOMAIN a) \cup (DOMAIN b) |-> IF k \in DOMAIN b THEN b[k] ELSE a[k]]

-----------------------------------------------------------------------------
(* String.prototype helpers *)

\* s.includes(sub)
Includes(s, sub) ==
    \E i \in 1..(Len(s) - Len(sub) + 1) : SubSeq(s, i, i + Len(sub) - 1) = sub

\* s.startsWith(p)
StartsWith(s, p) == Len(s) >= Len(p) /\ SubSeq(s, 1, Len(p)) = p

\* s.replace(pat, rep) with a string pattern: the first occurrence only
ReplaceFirst(s, pat, rep) ==
    IF ~Includes(s, pat) THEN s
    ELSE LET hits == {i \in 1..(Len(s) - Len(pat) + 1) :
                         SubSeq(s, i, i + Len(pat) - 1) = pat}
             i == CHOOSE h \in hits : \A g \in hits : h <= g
         IN  SubSeq(s, 1, i - 1) \o rep \o SubSeq(s, i + Len(pat), Len(s))

RECURSIVE TrimStart(_), TrimEnd(_)
TrimStart(s) ==
    IF Len(s) > 0 /\ SubSeq(s, 1, 1) = " " THEN TrimStart(SubSeq(s, 2, Len(s))) ELSE s
TrimEnd(s) ==
    IF Len(s) > 0 /\ SubSeq(s, Len(s), Len(s)) = " "
    THEN TrimEnd(SubSeq(s, 1, Len(s) - 1)) ELSE s

\* s.trim()
Trim(s) == TrimEnd(TrimStart(s))

-----------------------------------------------------------------------------
(* Function results: a returned value or a thrown one, with the calls made *)

\* thrown values: an Error object carries a message; a thrown primitive has none
ErrorObj(name, msg) == [t |-> "object", v |-> name, message |-> Str(msg)]
NoError == [t |-> "none", v |-> "", message |-> Undef]

Ret(val, cs) == [threw |-> FALSE, value |-> val, error |-> NoError, calls |-> cs]
Throw(err, cs) == [threw |-> TRUE, value |-> Undef, error |-> err, calls |-> cs]

-----------------------------------------------------------------------------
(* utils/ai.ts *)

\* own properties of the AI_PROVIDER_URLS object literal
AI_PROVIDER_URLS ==
    [p \in {"openai", "claude", "gemini", "deepseek"} |->
        CASE p = "openai" -> "https://api.openai.com/v1"
          [] p = "claude" -> "https://api.anthropic.com/v1"
          [] p = "gemini" -> "https://generativelanguage.googleapis.com/v1beta/openai"
          [] p = "deepseek" -> "https://api.deepseek.com/v1"]

\* own properties of the WORKER_AI_MODELS object literal
WORKER_AI_MODELS ==
    [m \in {"llama-3-8b", "llama-3-1-8b", "llama-2-7b", "mistral-7b", "mistral-7b-v2",
            "gemma-2b", "gemma-7b", "deepseek-coder", "qwen-7b"} |->
        CASE m = "llama-3-8b" -> "@cf/meta/llama-3-8b-instruct"
          [] m = "llama-3-1-8b" -> "@cf/meta/llama-3.1-8b-instruct"
          [] m = "llama-2-7b" -> "@cf/meta/llama-2-7b-chat-int8"
          [] m = "mistral-7b" -> "@cf/mistral/mistral-7b-instruct-v0.1"
          [] m = "mistral-7b-v2" -> "@cf/mistral/mistral-7b-instruct-v0.2-lora"
          [] m = "gemma-2b" -> "@cf/google/gemma-2b-it-lora"
          [] m = "gemma-7b" -> "@cf/google/gemma-7b-it-lora"
          [] m = "deepseek-coder" -> "@cf/deepseek-ai/deepseek-coder-6.7b-base-awq"
          [] m = "qwen-7b" -> "@cf/qwen/qwen1.5-7b-chat-awq"]

\* Both tables are plain object literals, so table[name] also finds what every
\* object inherits from Object.prototype: functions (truthy), which a template
\* string renders as their source text.
ObjectPrototypeKeys ==
    {"constructor", "toString", "valueOf", "hasOwnProperty", "isPrototypeOf",
     "propertyIsEnumerable", "toLocaleString"}
InheritedMember(name) == [t |-> "function", v |-> "function " \o name \o "() { [native code] }"]

\* AI_PROVIDER_URLS[provider]
ProviderUrl(provider) ==
    LET name == ToStr(provider)
    IN  IF name \in DOMAIN AI_PROVIDER_URLS THEN Str(AI_PROVIDER_URLS[name])
        ELSE IF name \in ObjectPrototypeKeys THEN InheritedMember(name)
        ELSE Undef

\* getWorkerAIModelId(shortName) = WORKER_AI_MODELS[shortName] || shortName
getWorkerAIModelId(shortName) ==
    LET name == ToStr(shortName)
        hit == IF name \in DOMAIN WORKER_AI_MODELS THEN Str(WORKER_AI_MODELS[name])
               ELSE IF name \in ObjectPrototypeKeys THEN InheritedMember(name)
               ELSE Undef
    IN  Or(hit, shortName)

\* the keys of a runtime response object, in the order JSON.stringify writes them
RuntimeFields == <<"response", "content", "output", "result", "text">>

RECURSIVE JsonMembers(_, _)
JsonMembers(obj, i) ==
    IF i > Len(RuntimeFields) THEN ""
    ELSE LET k == RuntimeFields[i]
             rest == JsonMembers(obj, i + 1)
             this == "\"" \o k \o "\":" \o
                     (IF obj[k].t = "string" THEN "\"" \o obj[k].v \o "\"" ELSE ToStr(obj[k]))
         IN  IF k \notin DOMAIN obj \/ obj[k].t = "undefined" THEN rest
             ELSE IF rest = "" THEN this ELSE this \o "," \o rest

\* JSON.stringify(obj) of a flat object
JsonStringify(obj) == "{" \o JsonMembers(obj, 1) \o "}"

\* executeWorkerAI(env, modelId, input); run is what env.AI.run does
executeWorkerAI(modelId, input, run) ==
    LET cs == <<[op |-> "AI.run", model |-> modelId, prompt |-> input]>>
        r == run.value
    IN  IF run.threw THEN Throw(run.error, cs)
        ELSE IF r.t = "object" THEN
            IF "response" \in DOMAIN r.fields THEN Ret(r.fields["response"], cs)
            ELSE IF "content" \in DOMAIN r.fields THEN Ret(r.fields["content"], cs)
            ELSE IF "output" \in DOMAIN r.fields THEN Ret(r.fields["output"], cs)
            ELSE IF "result" \in DOMAIN r.fields THEN Ret(r.fields["result"], cs)
            ELSE Ret(Str(JsonStringify(r.fields)), cs)
        ELSE IF r.t = "string" THEN Ret(Str(r.v), cs)
        ELSE Ret(Null, cs)

\* response.json() and data.choices?.[0]?.message?.content?.trim() || null
ParseCompletion(fx) ==
    CASE fx.body = "invalid" ->
            [threw |-> TRUE, value |-> Undef,
             error |-> ErrorObj("SyntaxError", "Unexpected token < in JSON at position 0")]
      [] fx.body = "null" ->
            [threw |-> TRUE, value |-> Undef,
             error |-> ErrorObj("TypeError", "Cannot read properties of null (reading 'choices')")]
      [] OTHER ->
            IF fx.content.t \in {"undefined", "null"}
            THEN [threw |-> FALSE, value |-> Null, error |-> NoError]
            ELSE IF fx.content.t = "string"
            THEN [threw |-> FALSE, value |-> Or(Str(Trim(fx.content.v)), Null), error |-> NoError]
            ELSE [threw |-> TRUE, value |-> Undef,
                  error |-> ErrorObj("TypeError", "data.choices?.[0]?.message?.content?.trim is not a function")]

\* fetch(url) sends a request only to an absolute http(s) URL; any other text is
\* turned down with a TypeError before anything is sent
IsAbsoluteUrl(url) == StartsWith(url, "https://") \/ StartsWith(url, "http://")

\* executeExternalAI(config, input); fx is what fetch and the response do
executeExternalAI(config, input, fx) ==
    LET finalApiUrl == Or(config.api_url, ProviderUrl(config.provider))
        url == ToStr(finalApiUrl) \o "/chat/completions"
        cs == <<[op |-> "fetch",
                 url |-> url,
                 sent |-> IsAbsoluteUrl(url),
                 authorization |-> "Bearer " \o ToStr(config.api_key),
                 model |-> config.model,
                 prompt |-> input]>>
        parsed == ParseCompletion(fx)
    IN  IF ~Truthy(config.api_key) THEN Throw(ErrorObj("Error", "API key not configured"), <<>>)
        ELSE IF ~Truthy(finalApiUrl) THEN Throw(ErrorObj("Error", "API URL not configured"), <<>>)
        ELSE IF ~IsAbsoluteUrl(url) THEN Throw(ErrorObj("TypeError", "Invalid URL: " \o url), cs)
        ELSE IF fx.kind = "reject" THEN Throw(fx.error, cs)
        ELSE IF ~(fx.status >= 200 /\ fx.status <= 299)
        THEN Throw(ErrorObj("Error", "API error " \o ToString(fx.status) \o ": " \o fx.text), cs)
        ELSE IF parsed.threw THEN Throw(parsed.error, cs)
        ELSE Ret(parsed.value, cs)

\* lines 365-383 without the tests for '401' and 'Unauthorized'
ClassifyWithoutAuth(m, model, provider) ==
    IF Includes(m, "fetch failed") \/ Includes(m, "NetworkError")
    THEN <<"Network error: Unable to connect to AI service",
           "Please check your API URL and network connection.">>
    ELSE IF Includes(m, "429")
    THEN <<"Rate limit exceeded", "Too many requests. Please wait a moment.">>
    ELSE <<m, "">>

\* lines 362-383: errorMessage and errorDetails for the message m, first match wins
Classify(m, model, provider) ==
    IF Includes(m, "fetch failed") \/ Includes(m, "NetworkError")
    THEN <<"Network error: Unable to connect to AI service",
           "Please check your API URL and network connection.">>
    ELSE IF Includes(m, "401") \/ Includes(m, "Unauthorized")
    THEN <<"Authentication failed: Invalid API key",
           "Please check your API key is correct and not expired.">>
    ELSE IF Includes(m, "429")
    THEN <<"Rate limit exceeded", "Too many requests. Please wait a moment.">>
    ELSE IF Includes(m, "404")
    THEN <<"Model not found",
           "Model \"" \o ToStr(model) \o "\" not found for provider \""
               \o ToStr(provider) \o "\".">>
    ELSE IF Includes(m, "500") \/ Includes(m, "503")
    THEN <<"AI service temporarily unavailable",
           "Service is experiencing issues. Please try again later.">>
    ELSE IF Includes(m, "Invalid")
    THEN <<"AI model error: " \o m,
           "Model \"" \o ToStr(model)
               \o "\" may not be supported. Please verify the model ID.">>
    ELSE <<m, "">>

\* processAIError(error, model, provider)
processAIError(error, model, provider) ==
    LET originalMessage == Or(error.message, Str("Unknown error"))
        classified == Classify(originalMessage.v, model, provider)
    IN  IF error.t \in {"null", "undefined"}
        THEN Throw(ErrorObj("TypeError", "Cannot read properties of " \o error.t
                                          \o " (reading 'message')"), <<>>)
        ELSE IF originalMessage.t # "string"
        THEN Throw(ErrorObj("TypeError", "originalMessage.includes is not a function"), <<>>)
        ELSE Ret([success |-> FALSE,
                  response |-> Undef,
                  error |-> Str(classified[1]),
                  details |-> Or(Str(classified[2]),
                                 Str("Original: " \o originalMessage.v))], <<>>)

\* testAIModel(env, config, testPrompt); world is what the provider called does
testAIModel(config, testPrompt, world) ==
    LET call == IF config.provider = Str("worker-ai")
                THEN executeWorkerAI(getWorkerAIModelId(config.model), testPrompt, world.run)
                ELSE executeExternalAI([provider |-> config.provider,
                                        model |-> config.model,
                                        api_key |-> Or(config.api_key, Str("")),
                                        api_url |-> Or(config.api_url, Str(""))],
                                       testPrompt, world.fetch)
        handled == processAIError(call.error, config.model, config.provider)
    IN  IF call.threw
        THEN IF handled.threw THEN Throw(handled.error, call.calls)
             ELSE Ret(handled.value, call.calls)
        ELSE IF Truthy(call.value)
        THEN Ret([success |-> TRUE, response |-> call.value,
                  error |-> Undef, details |-> Undef], call.calls)
        ELSE Ret([success |-> FALSE, response |-> Undef,
                  error |-> Str("Empty response from AI"), details |-> Undef], call.calls)

maxContentLength == 8000

\* stands for the fixed Chinese-language instruction literal of the source
SummaryInstruction == "Summarize the following in concise Chinese, at most 200 characters:\n\n"

\* generateAISummary(env, db, content); load is what getAIConfig(db) does
generateAISummary(content, load, world) ==
    LET config == load.value
        truncatedContent ==
            IF Len(content) > maxContentLength
            THEN SubSeq(content, 1, maxContentLength) \o "..."
            ELSE content
        call == IF config.provider = Str("worker-ai")
                THEN executeWorkerAI(getWorkerAIModelId(config.model),
                                     Str(SummaryInstruction \o truncatedContent), world.run)
                ELSE executeExternalAI(config, Str(truncatedContent), world.fetch)
    IN  IF load.threw THEN Throw(load.error, <<>>)
        ELSE IF ~Truthy(config.enabled) THEN Ret(Null, <<>>)
        ELSE IF call.threw THEN Ret(Null, call.calls)
        ELSE Ret(call.value, call.calls)

\* requiresApiKey(provider)
requiresApiKey(provider) == provider # Str("worker-ai")

-----------------------------------------------------------------------------
(* Collaborators of config.ts whose code is outside the sources at hand:    *)
(* utils/db-config (the AI sub-config) and the generic key-value stores.    *)

AIFields == {"enabled", "provider", "model", "api_key", "api_url"}

DefaultAIConfig ==
    [enabled |-> Bool(FALSE), provider |-> Str("worker-ai"), model |-> Str("llama-3-8b"),
     api_key |-> Str(""), api_url |-> Str("")]

DbError == ErrorObj("Error", "D1_ERROR: no such table")

\* getAIConfig(db): the stored record, or the failure of the read
getAIConfig(ai, dbOk) == IF dbOk THEN Ret(ai, <<>>) ELSE Throw(DbError, <<>>)

\* getAIConfigForFrontend(db): the stored record with the key replaced by "is it set"
getAIConfigForFrontend(ai) ==
    [enabled |-> ai.enabled, provider |-> ai.provider, model |-> ai.model,
     api_url |-> ai.api_url, api_key_set |-> Bool(Truthy(ai.api_key))]

\* setAIConfig(db, updates): the fields of the record that updates names are replaced
setAIConfig(ai, updates) ==
    [f \in AIFields |->
        IF f \in DOMAIN updates /\ updates[f] # Undef
        THEN IF f = "enabled" THEN Bool(ToStr(updates[f]) = "true")
             ELSE Str(ToStr(updates[f]))
        ELSE ai[f]]

\* store.all()
StoreAll(store) == store

\* store.set(key, value, false) for every key of pending, then store.save()
StoreSetAndSave(store, pending) == Merge(store, pending)

-----------------------------------------------------------------------------
(* services/config.ts *)

SENSITIVE_FIELDS == {"ai_summary.api_key"}

AI_CONFIG_KEYS ==
    {"ai_summary.enabled", "ai_summary.provider", "ai_summary.model",
     "ai_summary.api_key", "ai_summary.api_url"}

CLIENT_CONFIG_ENV_DEFAULTS ==
    [k \in {"site.name", "site.description", "site.avatar", "site.page_size"} |->
        CASE k = "site.name" -> "NAME"
          [] k = "site.description" -> "DESCRIPTION"
          [] k = "site.avatar" -> "AVATAR"
          [] k = "site.page_size" -> "PAGE_SIZE"]

\* stands for the eight-bullet placeholder literal of the source
MASK == "********"

\* maskSensitiveFields(config)
maskSensitiveFields(config) ==
    [key \in DOMAIN config |->
        IF key \in SENSITIVE_FIELDS /\ Truthy(config[key]) THEN Str(MASK) ELSE config[key]]

\* isAIConfigKey without the prefix test
isAIConfigKeyListedOnly(key) == key \in AI_CONFIG_KEYS

\* isAIConfigKey(key)
isAIConfigKey(key) == key \in AI_CONFIG_KEYS \/ StartsWith(key, "ai_summary.")

\* the test of lines 48 and 57: result[k] === undefined || result[k] === ''
UnsetOrEmpty(obj, key) == Get(obj, key) = Undef \/ Get(obj, key) = Str("")

\* getClientConfigWithDefaults with the environment value taking precedence
getClientConfigEnvFirst(all, e) ==
    LET fromEnv == {k \in DOMAIN CLIENT_CONFIG_ENV_DEFAULTS :
                       Truthy(Get(e, CLIENT_CONFIG_ENV_DEFAULTS[k]))}
        withEnv == [k \in (DOMAIN all) \cup fromEnv |->
                       IF k \in fromEnv THEN Get(e, CLIENT_CONFIG_ENV_DEFAULTS[k]) ELSE all[k]]
    IN  IF UnsetOrEmpty(withEnv, "site.page_size")
        THEN Put(withEnv, "site.page_size", Num("5"))
        ELSE withEnv

\* getClientConfigWithDefaults(clientConfig, env); all is clientConfig.all()
getClientConfigWithDefaults(all, e) ==
    LET fromEnv == {k \in DOMAIN CLIENT_CONFIG_ENV_DEFAULTS :
                       UnsetOrEmpty(all, k) /\ Truthy(Get(e, CLIENT_CONFIG_ENV_DEFAULTS[k]))}
        withEnv == [k \in (DOMAIN all) \cup fromEnv |->
                       IF k \in fromEnv THEN Get(e, CLIENT_CONFIG_ENV_DEFAULTS[k]) ELSE all[k]]
    IN  IF UnsetOrEmpty(withEnv, "site.page_size")
        THEN Put(withEnv, "site.page_size", Num("5"))
        ELSE withEnv

\* the test config with || on all four fields
TestConfigAllOr(body, config) ==
    [provider |-> Or(body.provider, config.provider),
     model |-> Or(body.model, config.model),
     api_url |-> Or(body.api_url, config.api_url),
     api_key |-> Or(body.api_key, config.api_key)]

\* lines 80-85: the test config, the body layered over the stored config
TestConfig(body, config) ==
    [provider |-> Or(body.provider, config.provider),
     model |-> Or(body.model, config.model),
     api_url |-> IF body.api_url # Undef THEN body.api_url ELSE config.api_url,
     api_key |-> IF body.api_key # Undef THEN body.api_key ELSE config.api_key]

DefaultTestPrompt == "Hello! This is a test message. Please respond with a simple greeting."

\* the server snapshot showing the placeholder whether or not a key is stored
ServerSnapshotAlwaysMasked(all, front) ==
    maskSensitiveFields(
        Put(Put(Put(Put(Put(all, "ai_summary.enabled", Str(ToStr(front.enabled))),
                        "ai_summary.provider", front.provider),
                    "ai_summary.model", front.model),
                "ai_summary.api_url", front.api_url),
            "ai_summary.api_key", Str(MASK)))

\* lines 119-131: the server snapshot with the flattened AI fields
ServerSnapshot(all, front) ==
    LET c1 == Put(all, "ai_summary.enabled", Str(ToStr(front.enabled)))
        c2 == Put(c1, "ai_summary.provider", front.provider)
        c3 == Put(c2, "ai_summary.model", front.model)
        c4 == Put(c3, "ai_summary.api_url", front.api_url)
        c5 == Put(c4, "ai_summary.api_key",
                  IF Truthy(front.api_key_set) THEN Str(MASK) ELSE Str(""))
    IN  maskSensitiveFields(c5)

\* lines 135-140: the client snapshot; enabled ?? false
ClientSnapshot(all, e, front) ==
    Put(getClientConfigWithDefaults(all, e), "ai_summary.enabled",
        IF front.enabled.t \in {"undefined", "null"} THEN Bool(FALSE) ELSE front.enabled)

\* the flat key handed on with its prefix left in place
NestedKeyUnstripped(key) == key

\* line 165: key.replace('ai_summary.', '')
NestedKey(key) == ReplaceFirst(key, "ai_summary.", "")

\* lines 159-170: the body split into regularConfig and aiConfigUpdates
RegularConfig(body) ==
    [key \in {k \in DOMAIN body : ~isAIConfigKey(k)} |-> body[key]]

AIConfigUpdates(body) ==
    LET aiKeys == {k \in DOMAIN body : isAIConfigKey(k)}
    IN  [n \in {NestedKey(k) : k \in aiKeys} |->
            body[CHOOSE k \in aiKeys : NestedKey(k) = n]]

\* the admin checks of lines 71, 113, 153 and 194
TestAIDenied(admin) == ~admin
GetDenied(type, admin) == type = "server" /\ ~admin
PostDeniedNever(admin) == FALSE
PostDenied(admin) == ~admin
ClearCacheDenied(admin) == ~admin

\* lines 108 and 148
InvalidType(type) == type # "server" /\ type # "client"

Text(s) == [kind |-> "text", text |-> s]
Thrown(err) == [kind |-> "throw", error |-> err]

-----------------------------------------------------------------------------
(* Bounds and input domains *)

\* most keys in one POST body
MaxBodyKeys == 2

\* keys of POST bodies, in the order the for-in loops of a request meet them
BodyKeyOrder ==
    <<"site.name", "site.description", "site.avatar", "site.page_size",
      "ai_summary.model", "ai_summary.api_key", "ai_summary.custom">>

SurfaceKeys == {"site.name", "ai_summary.model", "ai_summary.api_key", "ai_summary.custom"}

SurfaceValues ==
    [key \in SurfaceKeys |->
        CASE key = "ai_summary.api_key" -> {Str(""), Str("sk-real-value")}
          [] key = "ai_summary.model" -> {Str("gpt-4o")}
          [] key = "site.name" -> {Str("Stored name")}
          [] OTHER -> {Str("x")}]

SiteKeys == DOMAIN CLIENT_CONFIG_ENV_DEFAULTS

SiteValues ==
    [key \in SiteKeys |->
        CASE key = "site.name" -> {Str(""), Str("Stored name")}
          [] key = "site.description" -> {Str(""), Str("Stored description")}
          [] key = "site.avatar" -> {Str(""), Str("https://stored.example/a.png")}
          [] key = "site.page_size" -> {Str(""), Str("20"), Num("0")}]

\* the bodies with at most n of the keys, each key with one of its values
BodiesOver(keys, n, values) ==
    UNION {{b \in [S -> UNION {values[k] : k \in S}] : \A k \in S : b[k] \in values[k]} :
           S \in {T \in SUBSET keys : Cardinality(T) <= n}}

\* bodies of POST /config/:type
Bodies == BodiesOver(SurfaceKeys, MaxBodyKeys, SurfaceValues)

\* bodies of the POST requests that are turned away
RejectedBodies == BodiesOver(SurfaceKeys, 1, SurfaceValues)

\* bodies that write the site keys
SiteBodies == BodiesOver(SiteKeys, MaxBodyKeys, SiteValues)

Types == {"server", "client", "other"}

\* what can go wrong inside POST /config/:type
Faults == {"none", "save", "setAIConfig"}

-----------------------------------------------------------------------------
(* Handlers *)

Reply(r, st, rp, cs) ==
    /\ req' = r
    /\ status' = st
    /\ resp' = rp
    /\ calls' = cs

\* GET /config/:type
GetConfig(type, admin, dbOk) ==
    LET r == [route |-> "GET", type |-> type, admin |-> admin]
        front == getAIConfigForFrontend(aiConfig)
    IN  /\ UNCHANGED <<serverConfig, clientConfig, aiConfig, cache, env>>
        /\ IF InvalidType(type) THEN Reply(r, 400, Text("Invalid type"), <<>>)
           ELSE IF GetDenied(type, admin) THEN Reply(r, 401, Text("Unauthorized"), <<>>)
           ELSE IF ~dbOk THEN Reply(r, 500, Thrown(DbError), <<>>)
           ELSE IF type = "server"
           THEN Reply(r, 200,
                      [kind |-> "config",
                       config |-> ServerSnapshot(StoreAll(serverConfig), front)], <<>>)
           ELSE Reply(r, 200,
                      [kind |-> "config",
                       config |-> ClientSnapshot(StoreAll(clientConfig), env, front)], <<>>)

SetCalls(regular) ==
    LET keys == SelectSeq(BodyKeyOrder, LAMBDA k : k \in DOMAIN regular)
    IN  [i \in 1..Len(keys) |->
            [op |-> "set", key |-> keys[i], value |-> regular[keys[i]], flush |-> FALSE]]

\* the AI write goes first, then the set calls and the save
PostStepsAIWriteFirst(type, regularConfig, aiConfigUpdates) ==
    (IF DOMAIN aiConfigUpdates = {} THEN <<>>
     ELSE <<[op |-> "setAIConfig", updates |-> aiConfigUpdates]>>)
        \o SetCalls(regularConfig)
        \o <<[op |-> "save", target |-> type]>>

\* lines 172-182: the awaited calls in program order
PostSteps(type, regularConfig, aiConfigUpdates) ==
    SetCalls(regularConfig)
        \o <<[op |-> "save", target |-> type]>>
        \o (IF DOMAIN aiConfigUpdates = {} THEN <<>>
            ELSE <<[op |-> "setAIConfig", updates |-> aiConfigUpdates]>>)

\* the position of the call that rejects, 0 when none does
FailingStep(steps, fault) ==
    IF \E i \in 1..Len(steps) : steps[i].op = fault
    THEN CHOOSE i \in 1..Len(steps) : steps[i].op = fault
    ELSE 0

\* the calls made: an await that rejects ends the handler
StepsMade(steps, fault) ==
    IF FailingStep(steps, fault) = 0 THEN steps
    ELSE SubSeq(steps, 1, FailingStep(steps, fault))

\* the call op was made and resolved
StepDone(steps, fault, op) ==
    \E i \in 1..Len(StepsMade(steps, fault)) :
        steps[i].op = op /\ i # FailingStep(steps, fault)

\* POST /config/:type
PostConfig(type, admin, body, fault) ==
    LET r == [route |-> "POST", type |-> type, admin |-> admin, body |-> body]
        regularConfig == RegularConfig(body)
        aiConfigUpdates == AIConfigUpdates(body)
        steps == PostSteps(type, regularConfig, aiConfigUpdates)
        saved == StepDone(steps, fault, "save")
    IN  /\ UNCHANGED <<cache, env>>
        /\ IF InvalidType(type)
           THEN /\ Reply(r, 400, Text("Invalid type"), <<>>)
                /\ UNCHANGED <<serverConfig, clientConfig, aiConfig>>
           ELSE IF PostDenied(admin)
           THEN /\ Reply(r, 401, Text("Unauthorized"), <<>>)
                /\ UNCHANGED <<serverConfig, clientConfig, aiConfig>>
           ELSE /\ serverConfig' = IF type = "server" /\ saved
                                   THEN StoreSetAndSave(serverConfig, regularConfig)
                                   ELSE serverConfig
                /\ clientConfig' = IF type = "client" /\ saved
                                   THEN StoreSetAndSave(clientConfig, regularConfig)
                                   ELSE clientConfig
                /\ aiConfig' = IF StepDone(steps, fault, "setAIConfig")
                               THEN setAIConfig(aiConfig, aiConfigUpdates)
                               ELSE aiConfig
                /\ IF FailingStep(steps, fault) = 0
                   THEN Reply(r, 200, Text("OK"), steps)
                   ELSE Reply(r, 500, Thrown(DbError), StepsMade(steps, fault))

\* POST /config/test-ai
TestAI(admin, body, dbOk, world) ==
    LET r == [route |-> "TEST", admin |-> admin, body |-> body, world |-> world]
        load == getAIConfig(aiConfig, dbOk)
        testConfig == TestConfig(body, load.value)
        testPrompt == Or(body.testPrompt, Str(DefaultTestPrompt))
        out == testAIModel(testConfig, testPrompt, world)
        entry == <<[op |-> "testAIModel", config |-> testConfig, prompt |-> testPrompt]>>
    IN  /\ UNCHANGED <<serverConfig, clientConfig, aiConfig, cache, env>>
        /\ IF TestAIDenied(admin)
           THEN Reply(r, 401, [kind |-> "result", result |-> [error |-> Str("Unauthorized")]], <<>>)
           ELSE IF load.threw THEN Reply(r, 500, Thrown(load.error), <<>>)
           ELSE IF out.threw THEN Reply(r, 500, Thrown(out.error), entry \o out.calls)
           ELSE Reply(r, 200, [kind |-> "result", result |-> out.value], entry \o out.calls)

\* DELETE /config/cache
ClearCache(admin) ==
    LET r == [route |-> "CACHE", admin |-> admin]
    IN  /\ UNCHANGED <<serverConfig, clientConfig, aiConfig, env>>
        /\ IF ClearCacheDenied(admin)
           THEN /\ Reply(r, 401, Text("Unauthorized"), <<>>)
                /\ UNCHANGED cache
           ELSE /\ Reply(r, 200, Text("OK"), <<[op |-> "cache.clear"]>>)
                /\ cache' = FALSE

\* a caller of generateAISummary(env, db, content); no HTTP status is involved
GenerateSummary(content, dbOk, world) ==
    LET r == [route |-> "SUMMARY", content |-> content, world |-> world]
        out == generateAISummary(content, getAIConfig(aiConfig, dbOk), world)
    IN  /\ UNCHANGED <<serverConfig, clientConfig, aiConfig, cache, env>>
        /\ IF out.threw THEN Reply(r, status, Thrown(out.error), out.calls)
           ELSE Reply(r, status, [kind |-> "return", value |-> out.value], out.calls)

-----------------------------------------------------------------------------
(* The config HTTP surface: any sequence of requests *)

NoRequest == [route |-> "none"]

DefaultEnv == [n \in {"NAME", "DESCRIPTION"} |->
                  IF n = "NAME" THEN Str("Rin") ELSE Str("A lightweight personal blogging system")]

Init ==
    /\ serverConfig = EmptyObj
    /\ clientConfig = EmptyObj
    /\ aiConfig = DefaultAIConfig
    /\ cache = TRUE
    /\ env = DefaultEnv
    /\ req = NoRequest
    /\ status = 0
    /\ resp = Text("")
    /\ calls = <<>>

\* what the provider called by a request does
FetchOk == [kind |-> "response", status |-> 200, text |-> "", body |-> "object",
            content |-> Str(" Hello there! "), error |-> NoError]
RunOk == [threw |-> FALSE, error |-> NoError,
          value |-> [t |-> "object", v |-> "",
                     fields |-> [f \in {"response"} |-> Str("Hello from the runtime")]]]
WorldOk == [fetch |-> FetchOk, run |-> RunOk]

NoTestBody == [provider |-> Undef, model |-> Undef, api_url |-> Undef, api_key |-> Undef,
               testPrompt |-> Undef]

SurfaceTestBodies ==
    {NoTestBody,
     [NoTestBody EXCEPT !.provider = Str("openai"), !.api_key = Str("sk-test")]}

Next ==
    \/ \E type \in Types, admin \in BOOLEAN, dbOk \in BOOLEAN : GetConfig(type, admin, dbOk)
    \/ \E type \in {"server", "client"}, body \in Bodies, fault \in Faults :
           PostConfig(type, TRUE, body, fault)
    \/ \E type \in Types, admin \in BOOLEAN, body \in RejectedBodies :
           PostConfig(type, admin, body, "none")
    \/ \E admin \in BOOLEAN, body \in SurfaceTestBodies, dbOk \in BOOLEAN :
           TestAI(admin, body, dbOk, WorldOk)
    \/ \E admin \in BOOLEAN : ClearCache(admin)

Spec == Init /\ [][Next]_vars

-----------------------------------------------------------------------------
(* Properties of the config HTTP surface *)

Answered(route, type) == req.route = route /\ req.type = type /\ status = 200

\* C1: an answered GET /config/server shows for 'ai_summary.api_key' the fixed
\* placeholder exactly when a non-empty AI key is stored and '' when none is, and
\* no value of the response is the stored key.
C1_KeyIsMasked ==
    Answered("GET", "server") =>
        /\ resp.config["ai_summary.api_key"] =
               (IF Truthy(aiConfig.api_key) THEN Str(MASK) ELSE Str(""))
        /\ Truthy(aiConfig.api_key) =>
               \A k \in DOMAIN resp.config : resp.config[k] # aiConfig.api_key

C1_Witness ==
    /\ Answered("GET", "server")
    /\ aiConfig.api_key = Str("sk-real-value")
    /\ resp.config["ai_summary.api_key"] = Str(MASK)

\* the routes that require admin
AdminGated(r) ==
    \/ r.route \in {"TEST", "CACHE"}
    \/ r.route = "GET" /\ r.type = "server"
    \/ r.route = "POST" /\ r.type \in {"server", "client"}

\* C2: a request without admin to an admin-gated route is answered 401 and does
\* nothing: no store is written, the AI config and the cache are left alone, and no
\* collaborator (set, save, setAIConfig, cache.clear, provider) is called.
C2_UnauthorizedDoesNothing ==
    [][(AdminGated(req') /\ ~req'.admin) =>
           /\ status' = 401
           /\ calls' = <<>>
           /\ UNCHANGED <<serverConfig, clientConfig, aiConfig, cache>>]_vars

C2_Witness ==
    /\ req.route = "POST" /\ req.type = "client" /\ ~req.admin
    /\ "ai_summary.api_key" \in DOMAIN req.body
    /\ status = 401
    /\ calls = <<>>

IsAIPrefixed(key) == StartsWith(key, "ai_summary.")

\* C3: an answered GET /config/client, admin or not, holds 'ai_summary.enabled'
\* and no other key that begins with 'ai_summary.'.
C3_ClientSeesOnlyEnabled ==
    Answered("GET", "client") =>
        /\ "ai_summary.enabled" \in DOMAIN resp.config
        /\ \A k \in DOMAIN resp.config : IsAIPrefixed(k) => k = "ai_summary.enabled"

C3_Witness ==
    /\ Answered("GET", "client")
    /\ ~req.admin
    /\ aiConfig.model = Str("gpt-4o")
    /\ aiConfig.api_key = Str("sk-real-value")
    /\ "site.name" \in DOMAIN clientConfig

TargetStore(type) == IF type = "server" THEN serverConfig ELSE clientConfig

Suffix(key) == SubSeq(key, Len("ai_summary.") + 1, Len(key))

SetBeforeSave(key, value) ==
    \E i, j \in 1..Len(calls) :
        /\ i < j
        /\ calls[i].op = "set" /\ calls[i].key = key /\ calls[i].value = value
        /\ ~calls[i].flush
        /\ calls[j].op = "save" /\ calls[j].target = req.type

PassedToAIWriter(name, value) ==
    \E i \in 1..Len(calls) :
        /\ calls[i].op = "setAIConfig"
        /\ name \in DOMAIN calls[i].updates
        /\ calls[i].updates[name] = value

\* C4: when an admin POST /config/server|client has answered 'OK', every key of
\* the body without the AI prefix was set in the target store and saved, every key
\* with it went to the AI config writer under its name without the prefix, and no
\* key with it was set in the generic store.
C4_BodyIsSplit ==
    (req.route = "POST" /\ status = 200) =>
        \A k \in DOMAIN req.body :
            IF IsAIPrefixed(k)
            THEN /\ PassedToAIWriter(Suffix(k), req.body[k])
                 /\ \A i \in 1..Len(calls) : calls[i].op = "set" => calls[i].key # k
                 /\ k \notin DOMAIN TargetStore(req.type)
            ELSE /\ SetBeforeSave(k, req.body[k])
                 /\ Get(TargetStore(req.type), k) = req.body[k]

C4_Witness ==
    /\ req.route = "POST" /\ req.type = "server" /\ status = 200
    /\ DOMAIN req.body = {"ai_summary.model", "site.name"}
    /\ aiConfig.model = Str("gpt-4o")
    /\ serverConfig["site.name"] = Str("Stored name")

-----------------------------------------------------------------------------
(* Client reads under every environment: writes of the site keys, then reads *)

EnvNames == {"NAME", "DESCRIPTION", "AVATAR", "PAGE_SIZE"}

EnvValues(name) ==
    CASE name = "NAME" -> {Undef, Str("Acme")}
      [] name = "DESCRIPTION" -> {Str(""), Str("Env description")}
      [] name = "AVATAR" -> {Undef, Str("https://env.example/a.png")}
      [] name = "PAGE_SIZE" -> {Undef, Str("10")}

Envs == {e \in [EnvNames -> UNION {EnvValues(n) : n \in EnvNames}] :
            \A n \in EnvNames : e[n] \in EnvValues(n)}

InitSite ==
    /\ serverConfig = EmptyObj
    /\ clientConfig = EmptyObj
    /\ aiConfig = DefaultAIConfig
    /\ cache = TRUE
    /\ env \in Envs
    /\ req = NoRequest
    /\ status = 0
    /\ resp = Text("")
    /\ calls = <<>>

NextSite ==
    \/ \E body \in SiteBodies : PostConfig("client", TRUE, body, "none")
    \/ \E admin \in BOOLEAN : GetConfig("client", admin, TRUE)

SpecSite == InitSite /\ [][NextSite]_vars

\* present and not the empty string
NonEmpty(x) == x # Undef /\ x # Str("")

\* C5: an answered GET /config/client shows, for each of the four site keys, the
\* stored value when it is non-empty, else the environment value when that is
\* non-empty, else 5 for site.page_size and the stored (unset or empty) value for
\* the other three.
C5_StoreThenEnvThenDefault ==
    Answered("GET", "client") =>
        \A k \in SiteKeys :
            LET stored == Get(clientConfig, k)
                fromEnv == Get(env, CLIENT_CONFIG_ENV_DEFAULTS[k])
                shown == Get(resp.config, k)
            IN  IF NonEmpty(stored) THEN shown = stored
                ELSE IF NonEmpty(fromEnv) THEN shown = fromEnv
                ELSE IF k = "site.page_size" THEN shown = Num("5")
                ELSE shown = stored

C5_Witness ==
    /\ Answered("GET", "client")
    /\ "site.name" \notin DOMAIN clientConfig
    /\ env["NAME"] = Str("Acme")
    /\ resp.config["site.name"] = Str("Acme")
    /\ Get(clientConfig, "site.description") = Str("Stored description")
    /\ env["DESCRIPTION"] = Str("Env description")
    /\ resp.config["site.description"] = Str("Stored description")
    /\ Get(clientConfig, "site.page_size") = Str("")
    /\ env["PAGE_SIZE"] = Undef
    /\ resp.config["site.page_size"] = Num("5")

-----------------------------------------------------------------------------
(* The AI entry points over every stored config, request and provider outcome. *)
(* Neither entry point writes the stored state, so one call per behaviour       *)
(* reaches every outcome.                                                       *)

StoredConfigs ==
    [enabled : {Bool(TRUE), Bool(FALSE)},
     provider : {Str("worker-ai"), Str("openai"), Str("custom-llm")},
     model : {Str("llama-3-8b")},
     api_key : {Str(""), Str("sk-stored")},
     api_url : {Str(""), Str("https://stored.example/v1")}]

TestBodies ==
    [provider : {Undef, Str(""), Str("openai"), Str("toString")},
     model : {Undef, Str(""), Str("gpt-4o")},
     api_url : {Undef, Str(""), Str("https://body.example/v1")},
     api_key : {Undef, Str(""), Str("sk-body")},
     testPrompt : {Undef}]

Response(st, text) ==
    [kind |-> "response", status |-> st, text |-> text, body |-> "object",
     content |-> Undef, error |-> NoError]

FetchOutcomes ==
    {FetchOk,
     [FetchOk EXCEPT !.content = Undef],
     [FetchOk EXCEPT !.body = "invalid"],
     [FetchOk EXCEPT !.kind = "reject", !.error = ErrorObj("TypeError", "fetch failed")],
     Response(401, ""),
     Response(401, "Unauthorized"),
     Response(401, "Incorrect API key provided"),
     Response(401, "NetworkError when attempting to reach the identity service"),
     Response(401, "upstream fetch failed"),
     Response(429, "Too many requests"),
     Response(404, "model not found"),
     Response(500, "internal error")}

\* values a rejected env.AI.run can carry: JS lets any value be thrown
Throwables ==
    {ErrorObj("Error", "5007: No such model"),
     ErrorObj("Error", "inference timed out"),
     ErrorObj("Error", ""),
     [t |-> "string", v |-> "boom", message |-> Undef],
     [t |-> "object", v |-> "Object", message |-> Num("429")],
     [t |-> "null", v |-> "", message |-> Undef],
     [t |-> "undefined", v |-> "", message |-> Undef]}

\* a runtime value that is an object with these fields
RunObject(fields) == [t |-> "object", v |-> "", fields |-> fields]

\* values env.AI.run resolves with
RunValues ==
    {RunObject(EmptyObj),
     RunObject([f \in {"output"} |-> Str("Only the output field")]),
     RunObject([f \in {"text"} |-> Str("Not a known field")]),
     RunObject([f \in {"response", "content"} |->
                   IF f = "response" THEN Null ELSE Str("Text in the content field")]),
     RunObject([f \in {"response"} |-> Num("42")]),
     [t |-> "string", v |-> "A plain string", fields |-> EmptyObj],
     [t |-> "null", v |-> "", fields |-> EmptyObj],
     [t |-> "undefined", v |-> "", fields |-> EmptyObj]}

RunOutcomes ==
    {RunOk}
        \cup {[RunOk EXCEPT !.value = x] : x \in RunValues}
        \cup {[RunOk EXCEPT !.threw = TRUE, !.error = e] : e \in Throwables}

Worlds ==
    {[fetch |-> f, run |-> RunOk] : f \in FetchOutcomes}
        \cup {[fetch |-> FetchOk, run |-> r] : r \in RunOutcomes}

\* s written n times
RECURSIVE Repeat(_, _)
Repeat(s, n) ==
    IF n = 0 THEN ""
    ELSE LET half == Repeat(s, n \div 2)
         IN  half \o half \o (IF n % 2 = 1 THEN s ELSE "")

\* articles at and just over the length limit of generateAISummary
ArticleAtLimit == Repeat("a", maxContentLength)
ArticleOverLimit == ArticleAtLimit \o "b"
LongArticle == ArticleAtLimit \o "The part that is cut off."

Contents ==
    {"", "An article about model checking.", ArticleAtLimit, ArticleOverLimit, LongArticle}

InitAI ==
    /\ serverConfig = EmptyObj
    /\ clientConfig = EmptyObj
    /\ aiConfig \in StoredConfigs
    /\ cache = TRUE
    /\ env = DefaultEnv
    /\ req = NoRequest
    /\ status = 0
    /\ resp = Text("")
    /\ calls = <<>>

NextAI ==
    \/ \E body \in TestBodies, world \in Worlds :
           req.route = "none" /\ TestAI(TRUE, body, TRUE, world)
    \/ \E content \in Contents, dbOk \in BOOLEAN, world \in Worlds :
           req.route = "none" /\ GenerateSummary(content, dbOk, world)

SpecAI == InitAI /\ [][NextAI]_vars

\* a test invocation has run; calls[1] records the config it was given
Tested == req.route = "TEST" /\ Len(calls) > 0
TestedConfig == calls[1].config

\* a request went out to an external provider
Fetched == \E i \in 1..Len(calls) : calls[i].op = "fetch" /\ calls[i].sent
ProviderCalled == \E i \in 1..Len(calls) : calls[i].op \in {"fetch", "AI.run"}

Failed(message) ==
    /\ resp.kind = "result"
    /\ ~resp.result.success
    /\ resp.result.error = Str(message)

\* C6: for a provider other than 'worker-ai', a test invocation with an empty key
\* fails with 'API key not configured', and one with a key but neither an api_url
\* nor a registry URL for the provider fails with 'API URL not configured'; in
\* both cases no request goes out.
C6_ConfigErrorBeforeDispatch ==
    (Tested /\ TestedConfig.provider # Str("worker-ai")) =>
        /\ ~NonEmpty(TestedConfig.api_key) =>
               Failed("API key not configured") /\ ~Fetched
        /\ ( /\ NonEmpty(TestedConfig.api_key)
             /\ ~NonEmpty(TestedConfig.api_url)
             /\ ToStr(TestedConfig.provider) \notin DOMAIN AI_PROVIDER_URLS ) =>
               Failed("API URL not configured") /\ ~Fetched

\* the transport answered the test invocation's request with HTTP 401
Answered401 ==
    /\ Tested
    /\ TestedConfig.provider # Str("worker-ai")
    /\ Fetched
    /\ req.world.fetch.kind = "response"
    /\ req.world.fetch.status = 401

\* C7: whatever body text comes with an HTTP 401, the test invocation fails with
\* 'Authentication failed: Invalid API key'.
C7_Any401IsAuthFailure ==
    Answered401 => Failed("Authentication failed: Invalid API key")

MentionsNetwork(text) == Includes(text, "fetch failed") \/ Includes(text, "NetworkError")

\* C7 as amended: an HTTP 401 whose body text contains neither 'fetch failed' nor
\* 'NetworkError' fails with 'Authentication failed: Invalid API key'; with one of
\* them in the text the result is the network-error class, which is matched first.
C7_401IsAuthFailureUnlessNetworkText ==
    Answered401 =>
        IF MentionsNetwork(req.world.fetch.text)
        THEN Failed("Network error: Unable to connect to AI service")
        ELSE Failed("Authentication failed: Invalid API key")

C7_Witness ==
    /\ Answered401
    /\ req.world.fetch.text = "Incorrect API key provided"
    /\ Failed("Authentication failed: Invalid API key")

\* C8: generateAISummary returns (null when anything failed) and never throws.
C8_SummaryNeverThrows == req.route = "SUMMARY" => resp.kind = "return"

\* C9: with enabled = false stored, generateAISummary returns null and calls no
\* provider.
C9_DisabledReturnsNull ==
    (req.route = "SUMMARY" /\ aiConfig.enabled = Bool(FALSE)) =>
        /\ resp.kind = "return"
        /\ resp.value = Null
        /\ ~ProviderCalled

TestFields == {"provider", "model", "api_url", "api_key"}

\* C10: each field of the test config is the body's value when the body gives one
\* that is not undefined, the empty string included, and the stored value otherwise.
C10_EveryDefinedFieldOverrides ==
    Tested =>
        \A f \in TestFields :
            TestedConfig[f] = (IF req.body[f] # Undef THEN req.body[f] ELSE aiConfig[f])

\* C10 as amended: api_url and api_key are the body's value when it is not
\* undefined (the empty string included); provider and model are the body's value
\* only when it is a non-empty string, and the stored value otherwise.
C10_FieldwiseOverride ==
    Tested =>
        /\ \A f \in {"api_url", "api_key"} :
               TestedConfig[f] = (IF req.body[f] # Undef THEN req.body[f] ELSE aiConfig[f])
        /\ \A f \in {"provider", "model"} :
               TestedConfig[f] = (IF NonEmpty(req.body[f]) THEN req.body[f] ELSE aiConfig[f])

C10_Witness ==
    /\ Tested
    /\ req.body.api_key = Str("") /\ aiConfig.api_key = Str("sk-stored")
    /\ TestedConfig.api_key = Str("")
    /\ req.body.api_url = Undef /\ TestedConfig.api_url = Str("https://stored.example/v1")
    /\ req.body.provider = Str("") /\ TestedConfig.provider = Str("custom-llm")
    /\ req.body.model = Str("gpt-4o") /\ TestedConfig.model = Str("gpt-4o")

\* the three shapes of a test result
SuccessResult(result) ==
    /\ result.success
    /\ Truthy(result.response)
    /\ result.error = Undef
EmptyResult(result) ==
    /\ ~result.success
    /\ result.error = Str("Empty response from AI")
ClassifiedResult(result) ==
    /\ ~result.success
    /\ result.error.t = "string"
    /\ result.details.t = "string"
    /\ result.details.v # ""

\* the provider call of the test invocation threw this value
ProviderThrew(e) ==
    /\ Tested
    /\ TestedConfig.provider = Str("worker-ai")
    /\ req.world.run.threw
    /\ req.world.run.error = e

\* C11: a test invocation never throws; its result is {success:true, response}
\* for a non-empty provider result, {success:false, error:'Empty response from
\* AI'} for an empty one, and a classified {success:false, error, details} for
\* every value the provider call throws, whatever its message is; a message that
\* no class matches is passed through with details 'Original: <message>'.
C11_TestNeverThrows ==
    Tested =>
        /\ resp.kind = "result"
        /\ \/ SuccessResult(resp.result)
           \/ EmptyResult(resp.result)
           \/ ClassifiedResult(resp.result)
        /\ ProviderThrew(ErrorObj("Error", "inference timed out")) =>
               /\ resp.result.error = Str("inference timed out")
               /\ resp.result.details = Str("Original: inference timed out")

\* the prompts handed to a provider by the last call
Prompts == {calls[i].prompt : i \in {j \in 1..Len(calls) : calls[j].op \in {"fetch", "AI.run"}}}

\* the article as the claim has it cut: unchanged up to 8000 units, otherwise its
\* first 8000 units and the marker
Cut(article) ==
    IF Len(article) <= maxContentLength THEN article
    ELSE SubSeq(article, 1, maxContentLength) \o "..."

\* C12: with summaries enabled, the prompt handed to the provider, in-runtime or
\* external, is the fixed instruction followed by the article, the article cut
\* to its first 8000 units plus '...' when it is longer than that.
C12_PromptIsInstructionAndContent ==
    (req.route = "SUMMARY" /\ ProviderCalled) =>
        Prompts = {Str(SummaryInstruction \o Cut(req.content))}

\* the in-runtime client was called by generateAISummary and env.AI.run resolved
RuntimeAnswered ==
    /\ req.route = "SUMMARY"
    /\ \E i \in 1..Len(calls) : calls[i].op = "AI.run"
    /\ ~req.world.run.threw

LookupOrder == <<"response", "content", "output", "result">>

\* the fields of LookupOrder that hold a string, in that order
StringFields(fields) ==
    SelectSeq(LookupOrder, LAMBDA f : f \in DOMAIN fields /\ fields[f].t = "string")

\* what the claim has the client return for the runtime value r
FirstString(r) ==
    IF r.t = "object"
    THEN IF StringFields(r.fields) # <<>>
         THEN r.fields[StringFields(r.fields)[1]]
         ELSE Str(JsonStringify(r.fields))
    ELSE IF r.t = "string" THEN Str(r.v)
    ELSE Null

\* C13: for an object or a string from the runtime, the in-runtime client returns
\* a string: the first string among the fields response, content, output, result,
\* else the value itself when it is a string, else the JSON text of the object;
\* it returns null only for a value that is neither an object nor a string.
C13_FirstStringOrJson ==
    RuntimeAnswered =>
        /\ resp.kind = "return"
        /\ resp.value = FirstString(req.world.run.value)
        /\ req.world.run.value.t \in {"object", "string"} => resp.value.t = "string"

\* the calls are n set calls without flush, one save of the store, and then at
\* most the AI write
OrderedCalls(cs, type, n) ==
    /\ Len(cs) \in {n + 1, n + 2}
    /\ \A i \in 1..n : cs[i].op = "set" /\ ~cs[i].flush
    /\ cs[n + 1].op = "save" /\ cs[n + 1].target = type
    /\ Len(cs) = n + 2 => cs[n + 2].op = "setAIConfig"

\* the call that ended the handler with an error
FailedAt(st, cs, op) == st = 500 /\ cs # <<>> /\ cs[Len(cs)].op = op

\* C14: in an admin POST /config/server|client the calls are all the set calls
\* (each with flush = false, one per generic key of the body), then one save of
\* that store, then the AI write when the body has AI keys. When the AI write
\* fails the generic keys of the request are already in the store and the AI
\* config is as before; when save fails the AI write is not made and the AI
\* config is as before.
C14_SetsThenSaveThenAIWrite ==
    [][(req'.route = "POST" /\ status' \in {200, 500}) =>
          LET generic == {k \in DOMAIN req'.body : ~IsAIPrefixed(k)}
              store == IF req'.type = "server" THEN serverConfig' ELSE clientConfig'
          IN  /\ OrderedCalls(calls', req'.type, Cardinality(generic))
              /\ {calls'[i].key : i \in 1..Cardinality(generic)} = generic
              /\ status' = 200 =>
                     (Len(calls') = Cardinality(generic) + 2 <=> generic # DOMAIN req'.body)
              /\ FailedAt(status', calls', "setAIConfig") =>
                     /\ \A k \in generic : Get(store, k) = req'.body[k]
                     /\ aiConfig' = aiConfig
              /\ FailedAt(status', calls', "save") =>
                     /\ aiConfig' = aiConfig
                     /\ \A i \in 1..Len(calls') : calls'[i].op # "setAIConfig"]_vars

C14_Witness ==
    /\ req.route = "POST" /\ req.type = "client" /\ req.admin
    /\ DOMAIN req.body = {"site.name", "ai_summary.model"}
    /\ FailedAt(status, calls, "setAIConfig")
    /\ Len(calls) = 3
    /\ calls[1].op = "set" /\ calls[2].op = "save"
    /\ Get(clientConfig, "site.name") = req.body["site.name"]
    /\ aiConfig.model # req.body["ai_summary.model"]

====
